---- MODULE Spec2Model ----
(***************************************************************************)
(* The meeting workflow of teamsync-polyglot: the tRPC procedures of       *)
(* server/routers.ts over the persistence layer of server/db.ts and the    *)
(* MySQL schema of drizzle/schema.ts.  Every procedure is an async         *)
(* handler: each `await` of a database or remote call is one step, and     *)
(* handlers of different requests interleave between steps.                *)
(***************************************************************************)
EXTENDS Integers, Sequences, FiniteSets, TLC

\* ------------------------------------------------------------------ bounds
MaxMeetings == 1
MaxTranslations == 2

Slots == {1, 2}
Users == {1}
MeetingIds == 1..MaxMeetings
Languages == {"es", "fr"}
Titles == {"Standup"}
Contents == {"hello"}
DetectedCodes == {"en"}
TranslatedTexts == {"hola"}
Seconds == {0, 1}
DatabaseUrls == {"unset", "mysql://db"}

\* const maxSize = 16 * 1024 * 1024
MaxImageBytes == 16 * 1024 * 1024
FileSizes == {1, MaxImageBytes, MaxImageBytes + 1}
MimeTypes == {"image/jpeg", "image/jpg", "image/png", "image/webp", "image/gif",
              "IMAGE/PNG", "image/bmp", "application/pdf", ""}

\* The meetings already stored, and the users calling, when the reads are examined
\* on their own.
MaxListed == 2
Callers == {1, 2}

NULL == "<null>"

VARIABLES
    databaseUrl,          \* process.env.DATABASE_URL
    dbHandle,             \* _db of db.ts: TRUE once the drizzle instance exists
    meetings,             \* rows of table `meetings`
    translations,         \* rows of table `translations`
    meetingsAutoInc,      \* AUTO_INCREMENT counter of meetings.id
    translationsAutoInc,  \* AUTO_INCREMENT counter of translations.id
    clock,                \* the database server's now(), in seconds
    req,                  \* the requests in flight, one per slot
    batch,                \* the running batchTranslate call of the reference module
    ref                   \* translation-ollama.reference.ts: its settings, its call in progress

vars == <<databaseUrl, dbHandle, meetings, translations, meetingsAutoInc,
          translationsAutoInc, clock, req, ref, batch>>

\* ------------------------------------------------------------ persistence

\* Mutant of getDb: a handle is made although DATABASE_URL is not set.
getDbWithoutUrl(handle, url) == TRUE

\* getDb(): the handle after the call.
getDb(handle, url) == IF ~handle /\ url # "unset" THEN TRUE ELSE handle

Db == [meetings |-> meetings, translations |-> translations,
       meetingsAutoInc |-> meetingsAutoInc, translationsAutoInc |-> translationsAutoInc,
       now |-> clock]

SetDb(d) ==
    /\ meetings' = d.meetings
    /\ translations' = d.translations
    /\ meetingsAutoInc' = d.meetingsAutoInc
    /\ translationsAutoInc' = d.translationsAutoInc

DbError == "Database not available"
FkError == "Cannot add or update a child row: a foreign key constraint fails"

\* Mutant of createMeeting: the missing handle is not checked.
createMeetingWithoutHandle(h, d, values) ==
    [ok |-> TRUE, error |-> "",
     db |-> [d EXCEPT !.meetings = @ \cup {[id |-> d.meetingsAutoInc,
                                             userId |-> values.userId,
                                             title |-> values.title,
                                             originalContent |-> values.originalContent,
                                             detectedLanguage |-> values.detectedLanguage,
                                             createdAt |-> d.now]},
                      !.meetingsAutoInc = @ + 1],
     insertId |-> d.meetingsAutoInc]

\* createMeeting: insert into meetings, returns insertId.
createMeeting(h, d, values) ==
    IF ~h THEN [ok |-> FALSE, error |-> DbError, db |-> d, insertId |-> 0]
    ELSE [ok |-> TRUE, error |-> "",
          db |-> [d EXCEPT !.meetings = @ \cup {[id |-> d.meetingsAutoInc,
                                                  userId |-> values.userId,
                                                  title |-> values.title,
                                                  originalContent |-> values.originalContent,
                                                  detectedLanguage |-> values.detectedLanguage,
                                                  createdAt |-> d.now]},
                           !.meetingsAutoInc = @ + 1],
          insertId |-> d.meetingsAutoInc]

\* getMeetingById: select ... where id = ? limit 1; <<>> is undefined.
getMeetingById(h, d, id) ==
    IF ~h THEN {<<>>}
    ELSE IF \E m \in d.meetings : m.id = id
         THEN {<<m>> : m \in {x \in d.meetings : x.id = id}}
         ELSE {<<>>}

\* The orders in which a query with ORDER BY createdAt DESC may return the rows.
NewestFirst(rows) ==
    {f \in [1..Cardinality(rows) -> rows] :
        /\ \A i, j \in DOMAIN f : i # j => f[i] # f[j]
        /\ \A i, j \in DOMAIN f : i < j => f[i].createdAt >= f[j].createdAt}

\* getUserMeetings: select ... where userId = ? order by createdAt desc
getUserMeetings(h, d, userId) ==
    IF ~h THEN {<<>>} ELSE NewestFirst({m \in d.meetings : m.userId = userId})

\* Mutant of OnDeleteCascade: the foreign key declared without ON DELETE cascade
\* handling, so that the rows of a deleted meeting stay.
OnDeleteKeepRows(ts, id) == ts

\* translations_meetingId_meetings_id_fk ... ON DELETE cascade
OnDeleteCascade(ts, id) == {t \in ts : t.meetingId # id}

\* Mutant of deleteMeeting: the statement removes the translations only.
deleteMeetingKeepingRow(h, d, id) ==
    IF ~h THEN [ok |-> FALSE, error |-> DbError, db |-> d]
    ELSE [ok |-> TRUE, error |-> "",
          db |-> [d EXCEPT !.translations = OnDeleteCascade(@, id)]]

\* deleteMeeting: delete from meetings where id = ?
deleteMeeting(h, d, id) ==
    IF ~h THEN [ok |-> FALSE, error |-> DbError, db |-> d]
    ELSE [ok |-> TRUE, error |-> "",
          db |-> [d EXCEPT !.meetings = {m \in @ : m.id # id},
                           !.translations = OnDeleteCascade(@, id)]]

\* Mutant of InsertTranslationRow: a unique key on the pair drops the second row.
InsertOncePerPair(ts, row) ==
    IF \E t \in ts : t.meetingId = row.meetingId /\ t.targetLanguage = row.targetLanguage
    THEN ts ELSE ts \cup {row}

\* Mutant of InsertTranslationRow: the insert replaces the rows of the same pair.
InsertReplacingPair(ts, row) ==
    {t \in ts : ~(t.meetingId = row.meetingId /\ t.targetLanguage = row.targetLanguage)}
    \cup {row}

\* The rows of `translations` after the INSERT of one row.
InsertTranslationRow(ts, row) == ts \cup {row}

\* Mutant of createTranslation: no foreign key guards the insert.
createTranslationWithoutForeignKey(h, d, values) ==
    IF ~h THEN [ok |-> FALSE, error |-> DbError, db |-> d, insertId |-> 0]
    ELSE [ok |-> TRUE, error |-> "",
          db |-> [d EXCEPT !.translations =
                               InsertTranslationRow(@, [id |-> d.translationsAutoInc] @@ values),
                           !.translationsAutoInc = @ + 1],
          insertId |-> d.translationsAutoInc]

\* Mutant of createTranslation: the insert also writes the translated text over the
\* meeting's originalContent.
createTranslationOverwritingSource(h, d, values) ==
    IF ~h THEN [ok |-> FALSE, error |-> DbError, db |-> d, insertId |-> 0]
    ELSE IF ~(\E m \in d.meetings : m.id = values.meetingId)
    THEN [ok |-> FALSE, error |-> FkError,
          db |-> [d EXCEPT !.translationsAutoInc = @ + 1], insertId |-> 0]
    ELSE [ok |-> TRUE, error |-> "",
          db |-> [d EXCEPT !.translations =
                               InsertTranslationRow(@, [id |-> d.translationsAutoInc] @@ values),
                           !.translationsAutoInc = @ + 1,
                           !.meetings = {IF m.id = values.meetingId
                                         THEN [m EXCEPT !.originalContent = values.translatedContent]
                                         ELSE m : m \in @}],
          insertId |-> d.translationsAutoInc]

\* createTranslation: insert into translations, returns insertId.  The foreign key
\* on meetingId rejects a row whose meeting does not exist; InnoDB consumes the
\* AUTO_INCREMENT value all the same.
createTranslation(h, d, values) ==
    IF ~h THEN [ok |-> FALSE, error |-> DbError, db |-> d, insertId |-> 0]
    ELSE IF ~(\E m \in d.meetings : m.id = values.meetingId)
    THEN [ok |-> FALSE, error |-> FkError,
          db |-> [d EXCEPT !.translationsAutoInc = @ + 1], insertId |-> 0]
    ELSE [ok |-> TRUE, error |-> "",
          db |-> [d EXCEPT !.translations =
                               InsertTranslationRow(@, [id |-> d.translationsAutoInc,
                                                        meetingId |-> values.meetingId,
                                                        targetLanguage |-> values.targetLanguage,
                                                        translatedContent |-> values.translatedContent,
                                                        summary |-> values.summary,
                                                        actionItems |-> values.actionItems]),
                           !.translationsAutoInc = @ + 1],
          insertId |-> d.translationsAutoInc]

\* getTranslation: select ... where meetingId = ? and targetLanguage = ? limit 1.
\* No ORDER BY: with several matching rows the database may return any of them.
getTranslation(h, d, meetingId, targetLanguage) ==
    IF ~h THEN {<<>>}
    ELSE LET rows == {t \in d.translations :
                        t.meetingId = meetingId /\ t.targetLanguage = targetLanguage}
         IN IF rows = {} THEN {<<>>} ELSE {<<t>> : t \in rows}

\* ------------------------------------------------------ remote capabilities

\* The texts generateText may return to summarizeMeetingNotes.  json: JSON.parse
\* accepts the text; a property holds <<>> when it is missing or no array, and
\* <<a>> when it is the array a.
SummaryResponses ==
    { [json |-> FALSE, raw |-> "Here are the notes", summary |-> "",
       actionItems |-> <<>>, keyPoints |-> <<>>, participants |-> <<>>, decisions |-> <<>>],
      [json |-> TRUE, raw |-> "{...}", summary |-> "Overview",
       actionItems |-> << <<"Ann to ship">> >>, keyPoints |-> << <<>> >>,
       participants |-> << <<"Ann">> >>, decisions |-> <<>>] }

\* Array.isArray(x) ? x : []
ArrayOrEmpty(p) == IF p = <<>> THEN <<>> ELSE p[1]

\* summarizeMeetingNotes, after generateText returned `text`: the MeetingSummary.
\* participants and decisions hold <<>> for undefined.
summarizeMeetingNotes(text) ==
    IF text.json
    THEN [summary |-> IF text.summary = "" THEN "No summary available" ELSE text.summary,
          actionItems |-> ArrayOrEmpty(text.actionItems),
          keyPoints |-> ArrayOrEmpty(text.keyPoints),
          participants |-> text.participants,
          decisions |-> text.decisions]
    ELSE [summary |-> text.raw, actionItems |-> <<>>, keyPoints |-> <<>>,
          participants |-> <<>>, decisions |-> <<>>]

\* Mutant of JSONstringify: an empty list is left out of the text.
JSONstringifyDroppingEmpty(summary) ==
    << [key |-> "summary", value |-> <<summary.summary>>] >>
    \o (IF summary.actionItems = <<>> THEN <<>>
        ELSE << [key |-> "actionItems", value |-> summary.actionItems] >>)
    \o (IF summary.keyPoints = <<>> THEN <<>>
        ELSE << [key |-> "keyPoints", value |-> summary.keyPoints] >>)
    \o (IF summary.participants = <<>> THEN <<>>
        ELSE << [key |-> "participants", value |-> summary.participants[1]] >>)
    \o (IF summary.decisions = <<>> THEN <<>>
        ELSE << [key |-> "decisions", value |-> summary.decisions[1]] >>)

\* JSON.stringify(summary): the text as its sequence of "key": value members, in
\* property order; a property that is undefined is left out.
JSONstringify(summary) ==
    << [key |-> "summary", value |-> <<summary.summary>>],
       [key |-> "actionItems", value |-> summary.actionItems],
       [key |-> "keyPoints", value |-> summary.keyPoints] >>
    \o (IF summary.participants = <<>> THEN <<>>
        ELSE << [key |-> "participants", value |-> summary.participants[1]] >>)
    \o (IF summary.decisions = <<>> THEN <<>>
        ELSE << [key |-> "decisions", value |-> summary.decisions[1]] >>)

\* The member of a JSON text with the given key: <<>> when there is none.
Member(text, key) ==
    LET idx == {i \in 1..Len(text) : text[i].key = key}
    IN IF idx = {} THEN <<>> ELSE << text[CHOOSE i \in idx : TRUE].value >>

\* JSON.parse(text) of an object text: the object that formatSummaryForExport reads.
\* A property holds <<>> when the object has no such member.
JSONparse(text) ==
    [summary |-> Member(text, "summary"),
     actionItems |-> Member(text, "actionItems"),
     keyPoints |-> Member(text, "keyPoints"),
     participants |-> Member(text, "participants"),
     decisions |-> Member(text, "decisions")]

\* The text "{}".
EmptyObjectText == <<>>

\* ---------------------------------------------------------------- export

\* String.prototype.toUpperCase on the language labels of the model.
toUpperCase(s) ==
    CASE s = "es" -> "ES" [] s = "fr" -> "FR" [] s = "en" -> "EN"
      [] s = "unknown" -> "UNKNOWN" [] OTHER -> s

IndexText == <<"1", "2", "3">>

\* The line of three backquotes that opens and closes a fenced block.
CodeFence == "<fence>"

Bullets(items) == [i \in 1..Len(items) |-> <<"- ", items[i]>>]
Numbered(items) == [i \in 1..Len(items) |-> <<IndexText[i], ". ", items[i]>>]

\* formatSummaryForExport: the document as its lines, each line the pieces of its
\* template string (the value of new Date() is left out of the Generated line).
\* summary is the object JSON.parse returned; reading .length of a property that
\* is undefined throws a TypeError.
formatSummaryForExport(originalContent, translatedContent, summary, sourceLanguage, targetLanguage) ==
    IF summary.actionItems = <<>> \/ summary.keyPoints = <<>>
    THEN [ok |-> FALSE, error |-> "TypeError: Cannot read properties of undefined", lines |-> <<>>]
    ELSE [ok |-> TRUE, error |-> "", lines |->
        << <<"# Meeting Summary">>, <<"">>,
           <<"**Languages:** ", toUpperCase(sourceLanguage), " -> ", toUpperCase(targetLanguage)>>,
           <<"**Generated:** ">>, <<"">>,
           <<"## Overview">>,
           IF summary.summary = <<>> THEN <<"">> ELSE summary.summary[1],
           <<"">> >>
        \o (IF summary.participants # <<>> /\ Len(summary.participants[1]) > 0
            THEN << <<"## Participants">> >> \o Bullets(summary.participants[1]) \o << <<"">> >>
            ELSE <<>>)
        \o (IF Len(summary.actionItems[1]) > 0
            THEN << <<"## Action Items">> >> \o Numbered(summary.actionItems[1]) \o << <<"">> >>
            ELSE <<>>)
        \o (IF Len(summary.keyPoints[1]) > 0
            THEN << <<"## Key Points">> >> \o Bullets(summary.keyPoints[1]) \o << <<"">> >>
            ELSE <<>>)
        \o (IF summary.decisions # <<>> /\ Len(summary.decisions[1]) > 0
            THEN << <<"## Decisions Made">> >> \o Bullets(summary.decisions[1]) \o << <<"">> >>
            ELSE <<>>)
        \o << <<"---">>, <<"">>, <<"## Original Content">>, <<CodeFence>>, <<originalContent>>,
              <<CodeFence>>, <<"">>, <<"## Translated Content">>, <<CodeFence>>, <<translatedContent>>,
              <<CodeFence>> >>]

\* x || fallback for a string x.
OrElse(x, fallback) == IF x = NULL \/ x = "" THEN fallback ELSE x

\* -------------------------------------------------------------- requests

Ok(v) == [ok |-> TRUE, error |-> "", value |-> <<v>>]
Err(e) == [ok |-> FALSE, error |-> e, value |-> <<>>]
NoResult == [ok |-> FALSE, error |-> "", value |-> <<>>]

ProviderError == "AI provider request failed"

IdleReq ==
    [op |-> "idle", pc |-> "idle", user |-> 0, meetingId |-> 0, targetLanguage |-> "",
     title |-> "", content |-> "", meeting |-> <<>>, detectedLanguage |-> "",
     translatedContent |-> "", summarizeInput |-> "", summary |-> <<>>,
     result |-> NoResult, trace |-> <<>>, after |-> {}]

\* A request entering the router: its input, and the requests that had already
\* returned when it arrived.  user is ctx.user.id, kept for the handlers that read it.
NewReq(op, user, meetingId, targetLanguage) ==
    [IdleReq EXCEPT !.op = op, !.pc = "start", !.user = user, !.meetingId = meetingId,
                    !.targetLanguage = targetLanguage,
                    !.after = {s \in Slots : req[s].pc = "done"}]

\* The handler returns or throws: its locals are gone, its result stays with the caller.
Finish(rec, result) ==
    [rec EXCEPT !.pc = "done", !.result = result, !.meeting = <<>>,
                !.detectedLanguage = "", !.translatedContent = "", !.summarizeInput = "",
                !.summary = <<>>]

\* The handler's log of awaited calls: the call's name, followed by "rejected" when
\* the call threw.
Did(rec, call) == [rec EXCEPT !.trace = Append(@, call)]
Called(rec, call, ok) == IF ok THEN Did(rec, call) ELSE Did(Did(rec, call), "rejected")

\* A new request takes the first free slot (the slots are interchangeable).
Free(r) == req[r].pc = "idle" /\ \A s \in Slots : s < r => req[s].pc # "idle"

InFlight(op) == Cardinality({s \in Slots : req[s].op = op /\ req[s].pc # "done"})

\* The requests in flight that will insert a Meeting.
MeetingsInFlight == InFlight("create") + InFlight("createFromImage")

\* ------------------------------------------------------ meetings.translate

\* Mutant of translateAfterLookup: the cached row is ignored.
translateAfterLookupIgnoringCache(rec, found) == [rec EXCEPT !.pc = "getMeetingById"]

\* if (existingTranslation) return existingTranslation;
translateAfterLookup(rec, found) ==
    IF found # <<>> THEN Finish(rec, Ok(found[1]))
    ELSE [rec EXCEPT !.pc = "getMeetingById"]

\* Mutant of translateAfterLoad: the missing meeting is not checked.
translateAfterLoadUnchecked(rec, meeting) ==
    [rec EXCEPT !.meeting = meeting, !.pc = "translateMeetingNotes"]

\* if (!meeting) throw new Error("Meeting not found");
translateAfterLoad(rec, meeting) ==
    IF meeting = <<>> THEN Finish(rec, Err("Meeting not found"))
    ELSE [rec EXCEPT !.meeting = meeting, !.pc = "translateMeetingNotes"]

\* Mutant of translateAfterRemote: a rejection is swallowed and the handler goes on.
translateAfterRemoteSwallowing(rec, outcome) ==
    [rec EXCEPT !.translatedContent = outcome.text, !.meeting = <<>>,
                !.summarizeInput = outcome.text,
                !.pc = "summarizeMeetingNotes"]

\* Mutant of translateAfterRemote: the original notes are handed to the summarizer.
translateAfterRemoteSummarizingSource(rec, outcome) ==
    IF ~outcome.ok THEN Finish(rec, Err(ProviderError))
    ELSE [rec EXCEPT !.translatedContent = outcome.text, !.meeting = <<>>,
                     !.summarizeInput = rec.meeting[1].originalContent,
                     !.pc = "summarizeMeetingNotes"]

\* const translatedContent = await translateMeetingNotes(...): a rejection leaves the
\* handler; otherwise summarizeMeetingNotes(translatedContent) is called.
translateAfterRemote(rec, outcome) ==
    IF ~outcome.ok THEN Finish(rec, Err(ProviderError))
    ELSE [rec EXCEPT !.translatedContent = outcome.text, !.meeting = <<>>,
                     !.summarizeInput = outcome.text,
                     !.pc = "summarizeMeetingNotes"]

\* Mutant of translateAfterSummarize: the insert does not wait for a successful summary.
translateAfterSummarizeNotAwaited(rec, outcome) ==
    [rec EXCEPT !.summary = <<summarizeMeetingNotes(outcome.text)>>,
                !.pc = "createTranslation"]

\* Mutant of translateAfterSummarize: a response that JSON.parse refuses fails the request.
translateAfterSummarizeStrict(rec, outcome) ==
    IF ~outcome.ok \/ ~outcome.text.json THEN Finish(rec, Err(ProviderError))
    ELSE [rec EXCEPT !.summary = <<summarizeMeetingNotes(outcome.text)>>,
                     !.pc = "createTranslation"]

\* const summary = await summarizeMeetingNotes(translatedContent)
translateAfterSummarize(rec, outcome) ==
    IF ~outcome.ok THEN Finish(rec, Err(ProviderError))
    ELSE [rec EXCEPT !.summary = <<summarizeMeetingNotes(outcome.text)>>,
                     !.pc = "createTranslation"]

\* The values handed to db.createTranslation.  A text column holds <<t>> for the
\* text t and <<>> for NULL.
translationValues(rec) ==
    [meetingId |-> rec.meetingId,
     targetLanguage |-> rec.targetLanguage,
     translatedContent |-> rec.translatedContent,
     summary |-> rec.summary[1].summary,
     actionItems |-> <<JSONstringify(rec.summary[1])>>]

\* return { id: translationId, meetingId, targetLanguage, translatedContent, summary, actionItems }
translateAfterInsert(rec, res) ==
    IF ~res.ok THEN Finish(rec, Err(res.error))
    ELSE Finish(rec, Ok([id |-> res.insertId,
                         meetingId |-> rec.meetingId,
                         targetLanguage |-> rec.targetLanguage,
                         translatedContent |-> rec.translatedContent,
                         summary |-> rec.summary[1].summary,
                         actionItems |-> <<JSONstringify(rec.summary[1])>>]))

\* The request arrives and db.getTranslation answers.  (Bound: the requests that
\* miss the cache are admitted while ids up to MaxTranslations remain for them.)
TranslateLookup(r, m, l) ==
    /\ Free(r)
    /\ LET h == getDb(dbHandle, databaseUrl) IN
       /\ dbHandle' = h
       /\ \E found \in getTranslation(h, Db, m, l) :
            /\ found = <<>> => translationsAutoInc + InFlight("translate") <= MaxTranslations
            /\ req' = [req EXCEPT ![r] =
                       translateAfterLookup(Did(NewReq("translate", 0, m, l), "getTranslation"), found)]
    /\ UNCHANGED <<databaseUrl, meetings, translations, meetingsAutoInc, translationsAutoInc, clock, ref, batch>>

\* db.getMeetingById answers.
TranslateLoadMeeting(r) ==
    /\ req[r].pc = "getMeetingById" /\ req[r].op = "translate"
    /\ LET h == getDb(dbHandle, databaseUrl) IN
       /\ dbHandle' = h
       /\ \E meeting \in getMeetingById(h, Db, req[r].meetingId) :
            req' = [req EXCEPT ![r] = translateAfterLoad(Did(@, "getMeetingById"), meeting)]
    /\ UNCHANGED <<databaseUrl, meetings, translations, meetingsAutoInc, translationsAutoInc,
                   clock, ref, batch>>

\* The answers of the translation provider: one of the texts, or a rejection.
TranslateOutcomes(texts) ==
    {[ok |-> FALSE, text |-> ""]} \cup {[ok |-> TRUE, text |-> t] : t \in texts}

\* translateMeetingNotes answers.
TranslateRemote(r, outcome) ==
    /\ req[r].pc = "translateMeetingNotes"
    /\ req' = [req EXCEPT ![r] =
                 translateAfterRemote(Called(@, "translateMeetingNotes", outcome.ok), outcome)]
    /\ UNCHANGED <<databaseUrl, dbHandle, meetings, translations, meetingsAutoInc,
                   translationsAutoInc, clock, ref, batch>>

\* The answers of the summarizer's generateText: one of the texts, or a rejection.
SummarizeOutcomes(texts) ==
    {[ok |-> FALSE, text |-> CHOOSE t \in SummaryResponses : TRUE]}
    \cup {[ok |-> TRUE, text |-> t] : t \in texts}

\* summarizeMeetingNotes answers.
TranslateSummarize(r, outcome) ==
    /\ req[r].pc = "summarizeMeetingNotes"
    /\ req' = [req EXCEPT ![r] =
                 translateAfterSummarize(Called(@, "summarizeMeetingNotes", outcome.ok), outcome)]
    /\ UNCHANGED <<databaseUrl, dbHandle, meetings, translations, meetingsAutoInc,
                   translationsAutoInc, clock, ref, batch>>

\* db.createTranslation answers, and the handler returns.
TranslateInsert(r) ==
    /\ req[r].pc = "createTranslation"
    /\ LET h == getDb(dbHandle, databaseUrl)
           res == createTranslation(h, Db, translationValues(req[r]))
       IN /\ dbHandle' = h
          /\ SetDb(res.db)
          /\ req' = [req EXCEPT ![r] = translateAfterInsert(Called(@, "createTranslation", res.ok), res)]
    /\ UNCHANGED <<databaseUrl, clock, ref, batch>>

\* --------------------------------------------------------- meetings.create

\* const detectedLanguage = await detectMeetingLanguage(input.content)
createAfterDetect(rec, outcome) ==
    IF ~outcome.ok THEN Finish(rec, Err(ProviderError))
    ELSE [rec EXCEPT !.detectedLanguage = outcome.text, !.pc = "createMeeting"]

\* return { id: meetingId, detectedLanguage }
createAfterInsert(rec, res) ==
    IF ~res.ok THEN Finish(rec, Err(res.error))
    ELSE Finish(rec, Ok([id |-> res.insertId, detectedLanguage |-> rec.detectedLanguage]))

\* z.string().min(1)
minOne(s) == s # ""

\* The error of a request whose input the procedure's schema refuses.
BadRequest == "BAD_REQUEST"

\* The request arrives; the schema refuses an empty title or content, and otherwise
\* detectMeetingLanguage answers.  (Bound: the requests that pass are admitted while
\* meeting ids remain for them.)
CreateDetect(r, u, title, content) ==
    /\ Free(r)
    /\ LET call == [NewReq("create", u, 0, "") EXCEPT !.title = title, !.content = content] IN
       IF ~(minOne(title) /\ minOne(content))
       THEN req' = [req EXCEPT ![r] = Finish(call, Err(BadRequest))]
       ELSE /\ meetingsAutoInc + MeetingsInFlight <= MaxMeetings
            /\ \E outcome \in {[ok |-> FALSE, text |-> ""]}
                              \cup {[ok |-> TRUE, text |-> c] : c \in DetectedCodes} :
                 req' = [req EXCEPT ![r] =
                            createAfterDetect(Called(call, "detectMeetingLanguage", outcome.ok),
                                              outcome)]
    /\ UNCHANGED <<databaseUrl, dbHandle, meetings, translations, meetingsAutoInc,
                   translationsAutoInc, clock, ref, batch>>

\* db.createMeeting answers, and the handler returns.
CreateInsert(r) ==
    /\ req[r].pc = "createMeeting"
    /\ LET h == getDb(dbHandle, databaseUrl)
           res == createMeeting(h, Db, [userId |-> req[r].user, title |-> req[r].title,
                                        originalContent |-> req[r].content,
                                        detectedLanguage |-> req[r].detectedLanguage])
       IN /\ dbHandle' = h
          /\ SetDb(res.db)
          /\ req' = [req EXCEPT ![r] = createAfterInsert(Called(@, "createMeeting", res.ok), res)]
    /\ UNCHANGED <<databaseUrl, clock, ref, batch>>

\* ------------------------------------------------- meetings.createFromImage

\* String.prototype.toLowerCase on the MIME types of the model.
toLowerCase(s) == CASE s = "IMAGE/PNG" -> "image/png" [] OTHER -> s

supportedFormats == {"image/jpeg", "image/jpg", "image/png", "image/webp", "image/gif"}

SizeError == "Image too large. Maximum size is 16MB"
FormatError == "Unsupported image format"

\* Mutant of validateImageForOCR: every image/* type is supported.
validateImageForOCRAnyImage(fileSize, mimeType) ==
    IF fileSize > MaxImageBytes THEN [valid |-> FALSE, error |-> SizeError]
    ELSE IF toLowerCase(mimeType) \notin supportedFormats \cup {"image/bmp"}
    THEN [valid |-> FALSE, error |-> FormatError]
    ELSE [valid |-> TRUE, error |-> ""]

\* Mutant of validateImageForOCR: the size test is >= instead of >.
validateImageForOCRExclusive(fileSize, mimeType) ==
    IF fileSize >= MaxImageBytes THEN [valid |-> FALSE, error |-> SizeError]
    ELSE IF toLowerCase(mimeType) \notin supportedFormats
    THEN [valid |-> FALSE, error |-> FormatError]
    ELSE [valid |-> TRUE, error |-> ""]

\* validateImageForOCR(fileSize, mimeType): { valid, error }.  The error texts stand
\* for the messages, which go on to name the size or the type given.
validateImageForOCR(fileSize, mimeType) ==
    IF fileSize > MaxImageBytes THEN [valid |-> FALSE, error |-> SizeError]
    ELSE IF toLowerCase(mimeType) \notin supportedFormats
    THEN [valid |-> FALSE, error |-> FormatError]
    ELSE [valid |-> TRUE, error |-> ""]

\* The texts generateText may return to extractAndDetectLanguage.  json: JSON.parse
\* accepts the text, and text and language are the properties of the parsed object;
\* otherwise raw is the text itself.
OcrResponses ==
    { [json |-> TRUE, text |-> "hello", language |-> "en", raw |-> "{...}"],
      [json |-> TRUE, text |-> "", language |-> "unknown", raw |-> "{...}"],
      [json |-> FALSE, text |-> "", language |-> "", raw |-> "  "] }

\* String.prototype.trim on the raw texts of the model.
trim(s) == CASE s = "  " -> "" [] s = "hola " -> "hola" [] s = " en\n" -> "en" [] OTHER -> s

\* extractAndDetectLanguage, after generateText returned `text`: the OCRResult.
\* detectedLanguage holds NULL for undefined.
extractAndDetectLanguage(text) ==
    IF text.json
    THEN [extractedText |-> text.text, detectedLanguage |-> OrElse(text.language, "unknown")]
    ELSE [extractedText |-> trim(text.raw), detectedLanguage |-> NULL]

OcrError == "Failed to process image"
StorageError == "Storage upload failed"
NoTextError == "No text could be extracted from the image"

\* if (!validation.valid) throw new Error(validation.error); then await storagePut(...)
createFromImageAfterUpload(rec, validation, stored) ==
    IF ~validation.valid THEN Finish(Did(rec, "validateImageForOCR"), Err(validation.error))
    ELSE IF ~stored THEN Finish(Called(Did(rec, "validateImageForOCR"), "storagePut", FALSE),
                                Err(StorageError))
    ELSE [Did(Did(rec, "validateImageForOCR"), "storagePut") EXCEPT
              !.pc = "extractAndDetectLanguage"]

\* Mutant of createFromImageAfterOcr: empty extracted text is not checked.
createFromImageAfterOcrUnchecked(rec, outcome) ==
    IF ~outcome.ok THEN Finish(rec, Err(OcrError))
    ELSE LET ocrResult == extractAndDetectLanguage(outcome.text) IN
         [rec EXCEPT !.content = ocrResult.extractedText,
                     !.detectedLanguage = ocrResult.detectedLanguage,
                     !.pc = "createMeetingFromImage"]

\* if (!ocrResult.extractedText) throw new Error("No text could be extracted from the image");
createFromImageAfterOcr(rec, outcome) ==
    IF ~outcome.ok THEN Finish(rec, Err(OcrError))
    ELSE LET ocrResult == extractAndDetectLanguage(outcome.text) IN
         IF ocrResult.extractedText = "" THEN Finish(rec, Err(NoTextError))
         ELSE [rec EXCEPT !.content = ocrResult.extractedText,
                          !.detectedLanguage = ocrResult.detectedLanguage,
                          !.pc = "createMeetingFromImage"]

\* return { id: meetingId, detectedLanguage, extractedText, imageUrl }
createFromImageAfterInsert(rec, res) ==
    IF ~res.ok THEN Finish(rec, Err(res.error))
    ELSE Finish(rec, Ok([id |-> res.insertId, detectedLanguage |-> rec.detectedLanguage,
                         extractedText |-> rec.content]))

\* The request arrives, the image is validated and storagePut answers.  (Bound: the
\* requests that pass validation are admitted while meeting ids remain for them.)
CreateFromImageUpload(r, u, title, fileSize, mimeType) ==
    /\ Free(r)
    /\ LET validation == validateImageForOCR(fileSize, mimeType)
           call == [NewReq("createFromImage", u, 0, "") EXCEPT !.title = title]
       IN IF ~minOne(title)
          THEN req' = [req EXCEPT ![r] = Finish(call, Err(BadRequest))]
          ELSE /\ validation.valid => meetingsAutoInc + MeetingsInFlight <= MaxMeetings
               /\ \E stored \in BOOLEAN :
                    req' = [req EXCEPT ![r] =
                               createFromImageAfterUpload(call, validation, stored)]
    /\ UNCHANGED <<databaseUrl, dbHandle, meetings, translations, meetingsAutoInc,
                   translationsAutoInc, clock, ref, batch>>

\* extractAndDetectLanguage answers: the OCR result, or a rejection.
CreateFromImageOcr(r) ==
    /\ req[r].pc = "extractAndDetectLanguage"
    /\ \E outcome \in {[ok |-> FALSE, text |-> CHOOSE t \in OcrResponses : TRUE]}
                      \cup {[ok |-> TRUE, text |-> t] : t \in OcrResponses} :
            req' = [req EXCEPT ![r] =
                       createFromImageAfterOcr(
                           Called(@, "extractAndDetectLanguage", outcome.ok), outcome)]
    /\ UNCHANGED <<databaseUrl, dbHandle, meetings, translations, meetingsAutoInc,
                   translationsAutoInc, clock, ref, batch>>

\* db.createMeeting answers, and the handler returns.  imageUrl and imageKey, columns
\* that no procedure reads, are left out of the row.
CreateFromImageInsert(r) ==
    /\ req[r].pc = "createMeetingFromImage"
    /\ LET h == getDb(dbHandle, databaseUrl)
           res == createMeeting(h, Db, [userId |-> req[r].user, title |-> req[r].title,
                                        originalContent |-> req[r].content,
                                        detectedLanguage |-> req[r].detectedLanguage])
       IN /\ dbHandle' = h
          /\ SetDb(res.db)
          /\ req' = [req EXCEPT ![r] =
                        createFromImageAfterInsert(Called(@, "createMeeting", res.ok), res)]
    /\ UNCHANGED <<databaseUrl, clock, ref, batch>>

\* --------------------------------------------------------- meetings.export

\* Mutant of exportAfterLoad: a missing meeting is reported as a missing translation.
exportAfterLoadOneError(rec, meeting) ==
    IF meeting = <<>> THEN Finish(rec, Err("Translation not found"))
    ELSE [rec EXCEPT !.meeting = meeting, !.pc = "getTranslation"]

\* if (!meeting) throw new Error("Meeting not found");
exportAfterLoad(rec, meeting) ==
    IF meeting = <<>> THEN Finish(rec, Err("Meeting not found"))
    ELSE [rec EXCEPT !.meeting = meeting, !.pc = "getTranslation"]

\* Mutant of exportAfterLookup: a missing translation is made on demand.
exportAfterLookupTranslating(rec, translation) ==
    IF translation = <<>> THEN [rec EXCEPT !.pc = "translateMeetingNotes"]
    ELSE LET summary == JSONparse(IF translation[1].actionItems = <<>> THEN EmptyObjectText
                                  ELSE translation[1].actionItems[1])
             doc == formatSummaryForExport(rec.meeting[1].originalContent,
                                           translation[1].translatedContent,
                                           summary,
                                           OrElse(rec.meeting[1].detectedLanguage, "unknown"),
                                           rec.targetLanguage)
         IN Finish(Did(rec, "formatSummaryForExport"),
                   IF doc.ok THEN Ok([content |-> doc.lines]) ELSE Err(doc.error))

\* if (!translation) throw new Error("Translation not found"); otherwise parse the
\* stored summary, render the document and return { content }.
exportAfterLookup(rec, translation) ==
    IF translation = <<>> THEN Finish(rec, Err("Translation not found"))
    ELSE LET summary == JSONparse(IF translation[1].actionItems = <<>> THEN EmptyObjectText
                                  ELSE translation[1].actionItems[1])
             doc == formatSummaryForExport(rec.meeting[1].originalContent,
                                           translation[1].translatedContent,
                                           summary,
                                           OrElse(rec.meeting[1].detectedLanguage, "unknown"),
                                           rec.targetLanguage)
         IN Finish(Did(rec, "formatSummaryForExport"),
                   IF doc.ok THEN Ok([content |-> doc.lines]) ELSE Err(doc.error))

\* The request arrives and db.getMeetingById answers.
ExportLoadMeeting(r, m, l) ==
    /\ Free(r)
    /\ LET h == getDb(dbHandle, databaseUrl) IN
       /\ dbHandle' = h
       /\ \E meeting \in getMeetingById(h, Db, m) :
            req' = [req EXCEPT ![r] =
                       exportAfterLoad(Did(NewReq("export", 0, m, l), "getMeetingById"), meeting)]
    /\ UNCHANGED <<databaseUrl, meetings, translations, meetingsAutoInc, translationsAutoInc,
                   clock, ref, batch>>

\* db.getTranslation answers, and the handler returns.
ExportLookup(r) ==
    /\ req[r].pc = "getTranslation" /\ req[r].op = "export"
    /\ LET h == getDb(dbHandle, databaseUrl) IN
       /\ dbHandle' = h
       /\ \E translation \in getTranslation(h, Db, req[r].meetingId, req[r].targetLanguage) :
            req' = [req EXCEPT ![r] = exportAfterLookup(Did(@, "getTranslation"), translation)]
    /\ UNCHANGED <<databaseUrl, meetings, translations, meetingsAutoInc, translationsAutoInc,
                   clock, ref, batch>>

\* ------------------------------------- meetings.delete, get, list, getTranslation

\* await db.deleteMeeting(input.id); return { success: true };
Delete(r, id) ==
    /\ Free(r)
    /\ LET h == getDb(dbHandle, databaseUrl)
           res == deleteMeeting(h, Db, id)
       IN /\ dbHandle' = h
          /\ SetDb(res.db)
          /\ req' = [req EXCEPT ![r] =
                        Finish(Called(NewReq("delete", 0, id, ""), "deleteMeeting", res.ok),
                               IF res.ok THEN Ok([success |-> TRUE]) ELSE Err(res.error))]
    /\ UNCHANGED <<databaseUrl, clock, ref, batch>>

\* Mutant of getAfterLoad: a Meeting is shown to its owner only.
getAfterLoadOwnerOnly(rec, meeting) ==
    IF meeting # <<>> /\ meeting[1].userId # rec.user
    THEN Finish(rec, Ok([meeting |-> <<>>]))
    ELSE Finish(rec, Ok([meeting |-> meeting]))

\* return db.getMeetingById(input.id);  ctx.user is not read.
getAfterLoad(rec, meeting) == Finish(rec, Ok([meeting |-> meeting]))

\* meetings.get, called by the authenticated user u.
Get(r, u, id) ==
    /\ Free(r)
    /\ LET h == getDb(dbHandle, databaseUrl) IN
       /\ dbHandle' = h
       /\ \E meeting \in getMeetingById(h, Db, id) :
            req' = [req EXCEPT ![r] =
                       getAfterLoad(Did(NewReq("get", u, id, ""), "getMeetingById"), meeting)]
    /\ UNCHANGED <<databaseUrl, meetings, translations, meetingsAutoInc, translationsAutoInc,
                   clock, ref, batch>>

\* return db.getUserMeetings(ctx.user.id);
List(r, u) ==
    /\ Free(r)
    /\ LET h == getDb(dbHandle, databaseUrl) IN
       /\ dbHandle' = h
       /\ \E rows \in getUserMeetings(h, Db, u) :
            req' = [req EXCEPT ![r] =
                       Finish(Did(NewReq("list", u, 0, ""), "getUserMeetings"),
                              Ok([meetings |-> rows]))]
    /\ UNCHANGED <<databaseUrl, meetings, translations, meetingsAutoInc, translationsAutoInc,
                   clock, ref, batch>>

\* return db.getTranslation(input.meetingId, input.targetLanguage);
GetTranslation(r, m, l) ==
    /\ Free(r)
    /\ LET h == getDb(dbHandle, databaseUrl) IN
       /\ dbHandle' = h
       /\ \E found \in getTranslation(h, Db, m, l) :
            req' = [req EXCEPT ![r] =
                       Finish(Did(NewReq("getTranslation", 0, m, l), "getTranslation"),
                              Ok([translation |-> found]))]
    /\ UNCHANGED <<databaseUrl, meetings, translations, meetingsAutoInc, translationsAutoInc,
                   clock, ref, batch>>

\* ------------------------------------- translation-ollama.reference.ts

\* TRANSLATION_MODE and ENABLE_CLOUD_FALLBACK, read once when the module loads.
TranslationModes == {"cloud", "local"}

RefContents == {"", "  ", "hello"}
RefTargets == {"", "es", "fr"}
\* response.response of client.generate, and text of generateText.
OllamaTexts == {"hola ", "  ", " en\n", "English"}
GeminiTexts == {"hola", "", " en\n", "??"}

RefIdle(mode, fallback) ==
    [mode |-> mode, fallback |-> fallback, op |-> "idle", pc |-> "idle", content |-> "",
     targetLanguage |-> "", calls |-> <<>>, result |-> NoResult]

RefFinish(rec, result) == [rec EXCEPT !.pc = "done", !.result = result]

\* The provider the function turns to first; the call is logged as it is made.
RefRoute(rec) ==
    IF rec.mode = "local" THEN [rec EXCEPT !.pc = "local", !.calls = Append(@, "local")]
    ELSE [rec EXCEPT !.pc = "cloud", !.calls = Append(@, "cloud")]

\* translateMeetingNotes up to its first await: the two input checks, then the route.
refTranslateStart(rec, content, targetLanguage) ==
    LET call == [rec EXCEPT !.op = "translate", !.content = content,
                            !.targetLanguage = targetLanguage, !.calls = <<>>]
    IN IF content = "" \/ trim(content) = ""
       THEN RefFinish(call, Err("Translation content cannot be empty"))
       ELSE IF targetLanguage = "" \/ trim(targetLanguage) = ""
       THEN RefFinish(call, Err("Target language must be specified"))
       ELSE RefRoute(call)

\* detectMeetingLanguage up to its first await.
refDetectStart(rec, content) ==
    LET call == [rec EXCEPT !.op = "detect", !.content = content, !.targetLanguage = "",
                            !.calls = <<>>]
    IN IF content = "" \/ trim(content) = ""
       THEN RefFinish(call, Err("Cannot detect language of empty content"))
       ELSE RefRoute(call)

\* text.trim().toLowerCase().substring(0, 2) on the answers of the model.
languageCode(text) ==
    CASE text = " en\n" -> "en" [] text = "English" -> "en" [] text = "hola " -> "ho"
      [] text = "hola" -> "ho" [] text = "??" -> "??" [] OTHER -> ""

\* /^[a-z]{2}$/.test(code)
IsLanguageCode(code) == code \in {"en", "ho"}

\* translateWithOllama / detectLanguageWithOllama after client.generate answered:
\* <<text>> when the function returns text, <<>> when it throws.
ollamaResult(op, outcome) ==
    IF ~outcome.ok THEN <<>>
    ELSE IF op = "translate"
    THEN (IF trim(outcome.text) = "" THEN <<>> ELSE <<trim(outcome.text)>>)
    ELSE (IF IsLanguageCode(languageCode(outcome.text)) THEN <<languageCode(outcome.text)>>
          ELSE <<>>)

\* translateWithGemini / detectLanguageWithGemini after generateText answered.
geminiResult(op, outcome) ==
    IF ~outcome.ok THEN <<>>
    ELSE IF op = "translate" THEN <<outcome.text>>
    ELSE (IF IsLanguageCode(languageCode(outcome.text)) THEN <<languageCode(outcome.text)>>
          ELSE <<>>)

LocalError(op) ==
    IF op = "translate" THEN "Local translation failed" ELSE "Language detection failed"
CloudError(op) ==
    IF op = "translate" THEN "Cloud translation failed" ELSE "Language detection failed"

\* The catch block around the local call: fall back to the cloud once, or throw.
refAfterLocal(rec, answer) ==
    IF answer # <<>> THEN RefFinish(rec, Ok(answer[1]))
    ELSE IF rec.fallback THEN [rec EXCEPT !.pc = "cloud", !.calls = Append(@, "cloud")]
    ELSE RefFinish(rec, Err(LocalError(rec.op)))

\* Mutant of refAfterCloud: a failed cloud call is tried again.
refAfterCloudRetrying(rec, answer) ==
    IF answer # <<>> THEN RefFinish(rec, Ok(answer[1]))
    ELSE [rec EXCEPT !.calls = Append(@, "cloud")]

\* return await translateWithGemini(...): its result or its error is the function's.
refAfterCloud(rec, answer) ==
    IF answer # <<>> THEN RefFinish(rec, Ok(answer[1]))
    ELSE RefFinish(rec, Err(CloudError(rec.op)))

RefUnchanged ==
    UNCHANGED <<databaseUrl, dbHandle, meetings, translations, meetingsAutoInc,
                translationsAutoInc, clock, req, batch>>

RefTranslateStart(content, targetLanguage) ==
    /\ ref.pc = "idle"
    /\ ref' = refTranslateStart(ref, content, targetLanguage)
    /\ RefUnchanged

RefDetectStart(content) ==
    /\ ref.pc = "idle"
    /\ ref' = refDetectStart(ref, content)
    /\ RefUnchanged

\* client.generate answers, or rejects.
RefLocalAnswers ==
    /\ ref.pc = "local"
    /\ \E outcome \in {[ok |-> FALSE, text |-> ""]} \cup {[ok |-> TRUE, text |-> t] : t \in OllamaTexts} :
          ref' = refAfterLocal(ref, ollamaResult(ref.op, outcome))
    /\ RefUnchanged

\* generateText answers, or rejects.
RefCloudAnswers ==
    /\ ref.pc = "cloud"
    /\ \E outcome \in {[ok |-> FALSE, text |-> ""]} \cup {[ok |-> TRUE, text |-> t] : t \in GeminiTexts} :
          ref' = refAfterCloud(ref, geminiResult(ref.op, outcome))
    /\ RefUnchanged

\* The caller has the result or the error; the next call may start.
RefReturn ==
    /\ ref.pc = "done"
    /\ ref' = RefIdle(ref.mode, ref.fallback)
    /\ RefUnchanged

\* ------------------------------------------------------------ environment

\* The caller has its response; the slot takes the next request.
Release(r) ==
    /\ req[r].pc = "done"
    /\ req' = [s \in Slots |->
                 IF s = r THEN IdleReq ELSE [req[s] EXCEPT !.after = @ \ {r}]]
    /\ UNCHANGED <<databaseUrl, dbHandle, meetings, translations, meetingsAutoInc,
                   translationsAutoInc, clock, ref, batch>>

\* ------------------------------------------------ batchTranslate (reference)

\* The lists handed to batchTranslate hold up to MaxBatchItems items, each known by
\* its content; concurrency is any integer the caller passes.
MaxBatchItems == 3
BatchContents == {"a", "b"}
BatchConcurrencies == {-1, 0, 1, 2}
BatchLists == UNION {[1..n -> BatchContents] : n \in 0..MaxBatchItems}

\* What translateMeetingNotes resolves with for one item.
Translated(content) == [translationOf |-> content]

\* queue.splice(0, concurrency): the number of items removed, clamped to 0..length.
spliceCount(queue, concurrency) ==
    IF concurrency <= 0 THEN 0
    ELSE IF concurrency >= Len(queue) THEN Len(queue) ELSE concurrency

BatchIdle ==
    [pc |-> "idle", items |-> <<>>, concurrency |-> 0, queue |-> <<>>, results |-> <<>>,
     current |-> <<>>, calls |-> <<>>]

BatchUnchanged ==
    UNCHANGED <<databaseUrl, dbHandle, meetings, translations, meetingsAutoInc,
                translationsAutoInc, clock, req, ref>>

\* const results = []; const queue = [...items];
BatchStart(items, concurrency) ==
    /\ batch.pc = "idle"
    /\ batch' = [BatchIdle EXCEPT !.pc = "while", !.items = items,
                                  !.concurrency = concurrency, !.queue = items]
    /\ BatchUnchanged

\* while (queue.length > 0) { const batch = queue.splice(0, concurrency);
\* Promise.all(batch.map(...)) } return results;
batchAfterTest(b) ==
    IF Len(b.queue) > 0
    THEN LET n == spliceCount(b.queue, b.concurrency) IN
         [b EXCEPT !.pc = "await",
                   !.current = SubSeq(b.queue, 1, n),
                   !.queue = SubSeq(b.queue, n + 1, Len(b.queue)),
                   !.calls = [i \in 1..n |-> "pending"]]
    ELSE [b EXCEPT !.pc = "returned"]

\* The loop test, and the calls of the next batch are made.
BatchTake ==
    /\ batch.pc = "while"
    /\ batch' = batchAfterTest(batch)
    /\ BatchUnchanged

\* One translateMeetingNotes call of the current batch settles.  The first
\* rejection rejects Promise.all and batchTranslate throws, whatever calls of the
\* batch are still out; they settle later.
BatchCallSettles(i, ok) ==
    /\ batch.pc \in {"await", "thrown"}
    /\ i \in DOMAIN batch.calls /\ batch.calls[i] = "pending"
    /\ batch' = [batch EXCEPT !.calls[i] = IF ok THEN "resolved" ELSE "rejected",
                              !.pc = IF ok THEN @ ELSE "thrown"]
    /\ BatchUnchanged

\* Mutant of batchAfterAll: the texts are pushed last batch first.
batchAfterAllPrepending(b) ==
    [b EXCEPT !.pc = "while",
              !.results = [i \in 1..Len(b.current) |-> Translated(b.current[i])] \o @,
              !.current = <<>>, !.calls = <<>>]

\* results.push(...batchResults): Promise.all resolves with the texts in the order
\* of the batch.
batchAfterAll(b) ==
    [b EXCEPT !.pc = "while",
              !.results = @ \o [i \in 1..Len(b.current) |-> Translated(b.current[i])],
              !.current = <<>>, !.calls = <<>>]

\* Promise.all resolves once every call of the batch has resolved.
BatchAll ==
    /\ batch.pc = "await"
    /\ \A i \in DOMAIN batch.calls : batch.calls[i] = "resolved"
    /\ batch' = batchAfterAll(batch)
    /\ BatchUnchanged

\* A second passes on the database server.
Tick ==
    /\ clock + 1 \in Seconds
    /\ clock' = clock + 1
    /\ UNCHANGED <<databaseUrl, dbHandle, meetings, translations, meetingsAutoInc,
                   translationsAutoInc, req, ref, batch>>

Init ==
    /\ databaseUrl \in DatabaseUrls
    /\ dbHandle = FALSE
    /\ meetings = {}
    /\ translations = {}
    /\ meetingsAutoInc = 1
    /\ translationsAutoInc = 1
    /\ clock = 0
    /\ req = [s \in Slots |-> IdleReq]
    /\ ref = RefIdle("cloud", FALSE)
    /\ batch = BatchIdle

Next ==
    \/ \E r \in Slots, u \in Users, title \in Titles, content \in Contents :
          CreateDetect(r, u, title, content)
    \/ \E r \in Slots : CreateInsert(r)
    \/ \E r \in Slots, u \in Users, title \in Titles, fileSize \in FileSizes, mimeType \in MimeTypes :
          CreateFromImageUpload(r, u, title, fileSize, mimeType)
    \/ \E r \in Slots : CreateFromImageOcr(r)
    \/ \E r \in Slots : CreateFromImageInsert(r)
    \/ \E r \in Slots, m \in MeetingIds, l \in Languages : TranslateLookup(r, m, l)
    \/ \E r \in Slots : TranslateLoadMeeting(r)
    \/ \E r \in Slots, outcome \in TranslateOutcomes(TranslatedTexts) : TranslateRemote(r, outcome)
    \/ \E r \in Slots, outcome \in SummarizeOutcomes(SummaryResponses) : TranslateSummarize(r, outcome)
    \/ \E r \in Slots : TranslateInsert(r)
    \/ \E r \in Slots, m \in MeetingIds, l \in Languages : ExportLoadMeeting(r, m, l)
    \/ \E r \in Slots : ExportLookup(r)
    \/ \E r \in Slots, id \in MeetingIds : Delete(r, id)
    \/ \E r \in Slots, u \in Users, id \in MeetingIds : Get(r, u, id)
    \/ \E r \in Slots, u \in Users : List(r, u)
    \/ \E r \in Slots, m \in MeetingIds, l \in Languages : GetTranslation(r, m, l)
    \/ \E r \in Slots : Release(r)

\* The requests interleave freely; every created row carries the same createdAt.
Spec == Init /\ [][Next]_vars

\* The same, with seconds passing on the database server between the steps.
NextTimed == Next \/ Tick

SpecTimed == Init /\ [][NextTimed]_vars

\* One request at a time, over every input the procedures' schemas let through and
\* every text the providers may answer with, the empty text included.
InputTitles == {"", "Standup"}
InputContents == {"", "hello"}
InputLanguages == {"", "es"}
ProviderTexts == {"", "hola"}
\* A further JSON answer of the summarizer: no summary, actionItems not an array,
\* an empty participants array, key points and decisions.
InputSummaryResponses ==
    SummaryResponses \cup
    { [json |-> TRUE, raw |-> "{...}", summary |-> "",
       actionItems |-> <<>>, keyPoints |-> << <<"Shipped">> >>,
       participants |-> << <<>> >>, decisions |-> << <<"Go", "Hire">> >>] }

InitInputs ==
    /\ databaseUrl = "mysql://db"
    /\ dbHandle = FALSE
    /\ meetings = {}
    /\ translations = {}
    /\ meetingsAutoInc = 1
    /\ translationsAutoInc = 1
    /\ clock = 0
    /\ req = [s \in Slots |-> IdleReq]
    /\ ref = RefIdle("cloud", FALSE)
    /\ batch = BatchIdle

NextInputs ==
    \E r \in {1} :
        \/ \E u \in Users, title \in InputTitles, content \in InputContents :
              CreateDetect(r, u, title, content)
        \/ CreateInsert(r)
        \/ \E u \in Users, title \in InputTitles, fileSize \in FileSizes, mimeType \in MimeTypes :
              CreateFromImageUpload(r, u, title, fileSize, mimeType)
        \/ CreateFromImageOcr(r)
        \/ CreateFromImageInsert(r)
        \/ \E m \in MeetingIds, l \in InputLanguages : TranslateLookup(r, m, l)
        \/ TranslateLoadMeeting(r)
        \/ \E outcome \in TranslateOutcomes(ProviderTexts) : TranslateRemote(r, outcome)
        \/ \E outcome \in SummarizeOutcomes(InputSummaryResponses) : TranslateSummarize(r, outcome)
        \/ TranslateInsert(r)
        \/ \E m \in MeetingIds, l \in InputLanguages : ExportLoadMeeting(r, m, l)
        \/ ExportLookup(r)
        \/ \E id \in MeetingIds : Delete(r, id)
        \/ Release(r)

SpecInputs == InitInputs /\ [][NextInputs]_vars

\* batchTranslate on its own, for every list and concurrency.
InitBatch ==
    /\ databaseUrl = "unset"
    /\ dbHandle = FALSE
    /\ meetings = {}
    /\ translations = {}
    /\ meetingsAutoInc = 1
    /\ translationsAutoInc = 1
    /\ clock = 0
    /\ req = [s \in Slots |-> IdleReq]
    /\ ref = RefIdle("cloud", FALSE)
    /\ batch = BatchIdle

NextBatch ==
    \/ \E items \in BatchLists, concurrency \in BatchConcurrencies : BatchStart(items, concurrency)
    \/ BatchTake
    \/ \E i \in 1..MaxBatchItems, ok \in BOOLEAN : BatchCallSettles(i, ok)
    \/ BatchAll

SpecBatch == InitBatch /\ [][NextBatch]_vars

\* Every call that was made settles, and the function's own steps are taken.
SpecBatchFair ==
    /\ SpecBatch
    /\ WF_vars(BatchTake)
    /\ WF_vars(BatchAll)
    /\ WF_vars(\E i \in 1..MaxBatchItems, ok \in BOOLEAN : BatchCallSettles(i, ok))

\* The tables the server may hold after at most MaxListed creates: the ids in the
\* order of the inserts, the createdAt seconds never decreasing along them.
ListTables ==
    UNION {{ {[id |-> i, userId |-> owner[i], title |-> "Standup", originalContent |-> "hello",
               detectedLanguage |-> "en", createdAt |-> at[i]] : i \in 1..k} :
             owner \in [1..k -> Callers],
             at \in {f \in [1..k -> Seconds] : \A i, j \in 1..k : i < j => f[i] <= f[j]} } :
           k \in 0..MaxListed}

\* The reads and the delete over a table that creates have filled.
InitList ==
    /\ databaseUrl = "mysql://db"
    /\ dbHandle = TRUE
    /\ meetings \in ListTables
    /\ translations = {}
    /\ meetingsAutoInc = MaxListed + 1
    /\ translationsAutoInc = 1
    /\ clock \in {s \in Seconds : \A m \in meetings : m.createdAt <= s}
    /\ req = [s \in Slots |-> IdleReq]
    /\ ref = RefIdle("cloud", FALSE)
    /\ batch = BatchIdle

NextList ==
    \/ \E r \in Slots, u \in Callers : List(r, u)
    \/ \E r \in Slots, u \in Callers, id \in 1..MaxListed : Get(r, u, id)
    \/ \E r \in Slots, id \in 1..MaxListed : Delete(r, id)
    \/ \E r \in Slots : Release(r)
    \/ Tick

SpecList == InitList /\ [][NextList]_vars

\* The reference translation module on its own, under each configuration.
InitFallback ==
    /\ databaseUrl = "unset"
    /\ dbHandle = FALSE
    /\ meetings = {}
    /\ translations = {}
    /\ meetingsAutoInc = 1
    /\ translationsAutoInc = 1
    /\ clock = 0
    /\ req = [s \in Slots |-> IdleReq]
    /\ ref \in {RefIdle(mode, fallback) : mode \in TranslationModes, fallback \in BOOLEAN}
    /\ batch = BatchIdle

NextFallback ==
    \/ \E content \in RefContents, targetLanguage \in RefTargets :
          RefTranslateStart(content, targetLanguage)
    \/ \E content \in RefContents : RefDetectStart(content)
    \/ RefLocalAnswers
    \/ RefCloudAnswers
    \/ RefReturn

SpecFallback == InitFallback /\ [][NextFallback]_vars

\* ------------------------------------------------------------------ claims

RowsFor(ts, m, l) == {t \in ts : t.meetingId = m /\ t.targetLanguage = l}
MeetingExists(ms, m) == \E x \in ms : x.id = m
Count(seq, x) == Cardinality({i \in DOMAIN seq : seq[i] = x})
TablesUnchanged == UNCHANGED <<meetings, translations, meetingsAutoInc, translationsAutoInc>>

\* A translate, export or delete request that has returned a value.
Returned(r, op) == req[r].op = op /\ req[r].pc = "done" /\ req[r].result.ok

\* C1: in every reachable state, overlapping requests included, no two Translation
\* rows share the same (meetingId, targetLanguage) pair.
C1_UniquePair ==
    \A t1, t2 \in translations :
        (t1.meetingId = t2.meetingId /\ t1.targetLanguage = t2.targetLanguage) => t1 = t2

\* C2: a translate(M, L) that arrives when a row for (M, L) exists returns at once
\* with one of the existing rows for (M, L), having made the cache lookup and no
\* other call (no Meeting lookup, no remote translate or summarize call), and
\* writes nothing.
C2_CacheHitStep(r) ==
    (/\ req[r].pc = "idle"
     /\ req'[r].op = "translate"
     /\ RowsFor(translations, req'[r].meetingId, req'[r].targetLanguage) # {})
    => /\ req'[r].pc = "done"
       /\ req'[r].result.ok
       /\ req'[r].result.value[1] \in
              RowsFor(translations, req'[r].meetingId, req'[r].targetLanguage)
       /\ req'[r].trace = <<"getTranslation">>
       /\ TablesUnchanged

C2_CacheHit == [][\A r \in Slots : C2_CacheHitStep(r)]_vars

C2_Witness ==
    \E r \in Slots : Returned(r, "translate") /\ req[r].trace = <<"getTranslation">>

\* C3: of two translate(M, L) calls, the second arriving after the first (which
\* found nothing cached) has returned successfully, both return the same id,
\* translatedContent, summary and actionItems, and the two calls together make
\* exactly one remote translate call and exactly one remote summarize call.
C3_SequentialCallsAgree ==
    \A a, b \in Slots :
        (/\ a # b
         /\ Returned(a, "translate") /\ Returned(b, "translate")
         /\ req[a].meetingId = req[b].meetingId
         /\ req[a].targetLanguage = req[b].targetLanguage
         /\ a \in req[b].after
         /\ Len(req[a].trace) > 1)
        => /\ req[a].result.value[1].id = req[b].result.value[1].id
           /\ req[a].result.value[1].translatedContent = req[b].result.value[1].translatedContent
           /\ req[a].result.value[1].summary = req[b].result.value[1].summary
           /\ req[a].result.value[1].actionItems = req[b].result.value[1].actionItems
           /\ Count(req[a].trace \o req[b].trace, "translateMeetingNotes") = 1
           /\ Count(req[a].trace \o req[b].trace, "summarizeMeetingNotes") = 1

\* C4: no step of any request changes the originalContent of a Meeting that exists
\* before and after the step, and a new Meeting never takes the id of an earlier one.
C4_Step ==
    /\ \A m \in meetings : \A n \in meetings' :
          n.id = m.id => n.originalContent = m.originalContent
    /\ \A n \in meetings' :
          ~MeetingExists(meetings, n.id) => (n.id = meetingsAutoInc /\ meetingsAutoInc' > n.id)
    /\ meetingsAutoInc' >= meetingsAutoInc

C4_OriginalContentImmutable == [][C4_Step]_vars

C4_Witness ==
    \E m \in meetings : \E r, s \in Slots :
        /\ Returned(r, "translate") /\ req[r].meetingId = m.id
        /\ Len(req[r].trace) > 1
        /\ Returned(s, "export") /\ req[s].meetingId = m.id

\* C5: the step in which delete(M) completes successfully leaves no Translation row
\* with meetingId = M, and getTranslation(M, L) absent for every L; and this stays so
\* for as long as no Meeting with id M exists.
NoTranslationOf(h, d, m) ==
    /\ \A t \in d.translations : t.meetingId # m
    /\ \A l \in Languages : getTranslation(h, d, m, l) = {<<>>}

C5_Step ==
    /\ \A r \in Slots :
          (req[r].pc = "idle" /\ req'[r].op = "delete" /\ req'[r].result.ok)
          => NoTranslationOf(dbHandle', Db', req'[r].meetingId)
    /\ \A r \in Slots :
          (Returned(r, "delete") /\ ~MeetingExists(meetings, req[r].meetingId))
          => NoTranslationOf(dbHandle, Db, req[r].meetingId)

C5_CascadeDelete == [][C5_Step]_vars

C5_Witness ==
    \E r, s \in Slots :
        /\ Returned(r, "delete")
        /\ Returned(s, "translate") /\ req[s].meetingId = req[r].meetingId
        /\ s \in req[r].after
        /\ ~MeetingExists(meetings, req[r].meetingId)
        /\ translations = {}

\* C6: an export(M, L) that finds no Meeting M fails with "Meeting not found"; one
\* that finds the Meeting fails with "Translation not found" when no row for (M, L)
\* exists at its lookup, and returns a document with the three headings when one
\* does.  A row for (M, L) only ever comes from the insert of a translate(M, L)
\* request, and a translate(M, L) that returns leaves a row for (M, L) behind it.
HasHeadings(doc) ==
    \A h \in {"# Meeting Summary", "## Original Content", "## Translated Content"} :
        \E i \in 1..Len(doc) : doc[i] = <<h>>

C6_ExportStep(r) ==
    /\ (req[r].pc = "idle" /\ req'[r].op = "export"
        /\ ~MeetingExists(meetings, req'[r].meetingId))
       => req'[r].pc = "done" /\ req'[r].result = Err("Meeting not found")
    /\ (req[r].op = "export" /\ req[r].pc = "getTranslation" /\ req'[r].pc = "done")
       => IF RowsFor(translations, req[r].meetingId, req[r].targetLanguage) = {}
          THEN req'[r].result = Err("Translation not found")
          ELSE req'[r].result.ok /\ HasHeadings(req'[r].result.value[1].content)

C6_TranslateStep(r) ==
    /\ \A t \in translations' \ translations :
          \E s \in Slots : /\ req[s].op = "translate" /\ req[s].pc = "createTranslation"
                           /\ req[s].meetingId = t.meetingId
                           /\ req[s].targetLanguage = t.targetLanguage
    /\ (req[r].pc # "done" /\ req'[r].op = "translate" /\ req'[r].pc = "done"
        /\ req'[r].result.ok)
       => RowsFor(translations', req'[r].meetingId, req'[r].targetLanguage) # {}

C6_ExportNeedsTranslation == [][\A r \in Slots : C6_ExportStep(r) /\ C6_TranslateStep(r)]_vars

C6_Witness ==
    \E r, s \in Slots :
        /\ Returned(s, "translate") /\ Len(req[s].trace) > 1
        /\ Returned(r, "export") /\ s \in req[r].after
        /\ req[r].meetingId = req[s].meetingId
        /\ req[r].targetLanguage = req[s].targetLanguage

\* C6 as stated: an export that is the first request the server handles (so no
\* translate has ever been made) fails with "Translation not found", and an
\* export(M, L) that arrives after a translate(M, L) has returned succeeds.
C6_AsStated ==
    [][\A r \in Slots :
         /\ (~dbHandle /\ req[r].pc = "idle" /\ req'[r].op = "export" /\ req'[r].pc = "done")
            => req'[r].result = Err("Translation not found")
         /\ \A s \in Slots :
              (/\ Returned(s, "translate")
               /\ req[r].op = "export" /\ req[r].pc = "done" /\ s \in req[r].after
               /\ req[r].meetingId = req[s].meetingId
               /\ req[r].targetLanguage = req[s].targetLanguage)
              => req[r].result.ok]_vars

\* C7: no step of an export request makes a remote call or writes: each step leaves
\* both tables and their counters unchanged, and the calls of the request are
\* getMeetingById, getTranslation and formatSummaryForExport only, on the success
\* path and on both failure paths.
ExportCalls == {"getMeetingById", "getTranslation", "formatSummaryForExport"}

C7_Step(r) ==
    (req'[r].op = "export" /\ req'[r].trace # req[r].trace)
    => /\ TablesUnchanged
       /\ \A i \in 1..Len(req'[r].trace) : req'[r].trace[i] \in ExportCalls
       /\ req'[r].pc = "done" =>
             \/ req'[r].result.ok
             \/ req'[r].result.error \in {"Meeting not found", "Translation not found"}

C7_ExportReadOnly == [][\A r \in Slots : C7_Step(r)]_vars

C7_Witness ==
    \E r, s \in Slots :
        /\ Returned(r, "export")
        /\ req[s].op = "export" /\ req[s].pc = "done"
        /\ req[s].result = Err("Translation not found")

\* C8: a step leaves every Translation row as it is, or removes it in the step of a
\* successful delete of its Meeting; a new row takes an id no row ever had.
C8_Step ==
    /\ \A t \in translations :
          \/ t \in translations' /\ \A u \in translations' : u.id = t.id => u = t
          \/ /\ \A u \in translations' : u.id # t.id
             /\ MeetingExists(meetings, t.meetingId)
             /\ ~MeetingExists(meetings', t.meetingId)
             /\ \E r \in Slots : /\ req[r].pc = "idle" /\ req'[r].op = "delete"
                                 /\ req'[r].meetingId = t.meetingId /\ req'[r].result.ok
    /\ \A u \in translations' \ translations :
          u.id = translationsAutoInc /\ translationsAutoInc' > u.id
    /\ translationsAutoInc' >= translationsAutoInc

C8_RowsImmutable == [][C8_Step]_vars

C8_Witness ==
    \E t \in translations : \E r, s \in Slots :
        /\ Returned(r, "translate") /\ req[r].trace = <<"getTranslation">>
        /\ req[r].result.value[1] = t
        /\ Returned(s, "translate") /\ Len(req[s].trace) > 1
        /\ req[s].meetingId = t.meetingId /\ req[s].targetLanguage = t.targetLanguage
        /\ s \in req[r].after

\* C9: the step in which a translate request that missed the cache finds no Meeting
\* ends the request with "Meeting not found": its calls are the two lookups, and
\* nothing is written.
C9_Step(r) ==
    (/\ req[r].op = "translate" /\ req[r].pc = "getMeetingById"
     /\ req'[r].pc # req[r].pc
     /\ ~MeetingExists(meetings, req[r].meetingId))
    => /\ req'[r].pc = "done"
       /\ req'[r].result = Err("Meeting not found")
       /\ req'[r].trace = <<"getTranslation", "getMeetingById">>
       /\ TablesUnchanged

C9_MeetingNotFound == [][\A r \in Slots : C9_Step(r)]_vars

C9_Witness ==
    \E r \in Slots :
        /\ req[r].op = "translate" /\ req[r].pc = "done"
        /\ req[r].result = Err("Meeting not found")
        /\ translations = {}

\* C10: the step in which translateMeetingNotes rejects ends the request with an
\* error, without a summarize call or an insert; no step of a translate request
\* before its insert writes, so the tables are as the request found them, and a
\* lookup for (M, L) that missed before the rejection misses after it.
Rejected(trace, call) ==
    /\ Len(trace) >= 2
    /\ trace[Len(trace) - 1] = call /\ trace[Len(trace)] = "rejected"

C10_Step(r) ==
    /\ (/\ req[r].op = "translate" /\ req[r].pc = "translateMeetingNotes"
        /\ Rejected(req'[r].trace, "translateMeetingNotes"))
       => /\ req'[r].pc = "done"
          /\ req'[r].result = Err(ProviderError)
          /\ Count(req'[r].trace, "summarizeMeetingNotes") = 0
          /\ Count(req'[r].trace, "createTranslation") = 0
          /\ TablesUnchanged
          /\ RowsFor(translations, req[r].meetingId, req[r].targetLanguage) = {}
             => getTranslation(dbHandle', Db', req[r].meetingId, req[r].targetLanguage)
                = {<<>>}
    /\ (/\ req'[r].op = "translate" /\ req'[r].trace # req[r].trace
        /\ Count(req'[r].trace, "createTranslation") = 0)
       => TablesUnchanged

C10_TranslateFailure == [][\A r \in Slots : C10_Step(r)]_vars

C10_Witness ==
    \E r, s \in Slots :
        /\ req[r].op = "translate" /\ req[r].pc = "done"
        /\ Rejected(req[r].trace, "translateMeetingNotes")
        /\ req[s].op = "translate" /\ r \in req[s].after
        /\ req[s].meetingId = req[r].meetingId
        /\ req[s].targetLanguage = req[r].targetLanguage
        /\ Len(req[s].trace) > 1

\* C11: when generateText answers summarizeMeetingNotes with a text JSON.parse
\* refuses, the summary is that raw text with empty actionItems and keyPoints, the
\* translate request goes on to its insert, and the insert (the Meeting still
\* existing) persists a row whose summary is the raw text and whose serialized
\* payload holds empty actionItems and keyPoints lists; the request returns that row's id.
RawTexts == {t.raw : t \in {x \in SummaryResponses : ~x.json}}

C11_Step(r) ==
    /\ \A t \in SummaryResponses :
          ~t.json => summarizeMeetingNotes(t) =
                        [summary |-> t.raw, actionItems |-> <<>>, keyPoints |-> <<>>,
                         participants |-> <<>>, decisions |-> <<>>]
    /\ (/\ req[r].op = "translate" /\ req[r].pc = "summarizeMeetingNotes"
        /\ req'[r].pc # req[r].pc
        /\ ~Rejected(req'[r].trace, "summarizeMeetingNotes"))
       => /\ req'[r].pc = "createTranslation"
          /\ req'[r].summary \in {<<summarizeMeetingNotes(t)>> : t \in SummaryResponses}
    /\ (/\ req[r].op = "translate" /\ req[r].pc = "createTranslation"
        /\ req'[r].pc # req[r].pc
        /\ req[r].summary[1].summary \in RawTexts
        /\ MeetingExists(meetings, req[r].meetingId))
       => /\ req'[r].result.ok
          /\ \E row \in translations' \ translations :
                /\ row.id = req'[r].result.value[1].id
                /\ row.summary = req[r].summary[1].summary
                /\ JSONparse(row.actionItems[1]).summary = << <<row.summary>> >>
                /\ JSONparse(row.actionItems[1]).actionItems = << <<>> >>
                /\ JSONparse(row.actionItems[1]).keyPoints = << <<>> >>

C11_UnparseableSummary == [][\A r \in Slots : C11_Step(r)]_vars

C11_Witness ==
    \E row \in translations : \E r \in Slots :
        /\ row.summary \in RawTexts
        /\ Returned(r, "translate") /\ Len(req[r].trace) > 1
        /\ req[r].result.value[1].id = row.id

\* C12: validateImageForOCR accepts a declared size of exactly 16 MiB and rejects
\* 16 MiB + 1 with the size error; a createFromImage request rejected for its size
\* ends at once with that error, having made no storagePut, OCR or createMeeting
\* call and no write.
Validated(r) ==
    /\ req[r].pc = "idle" /\ req'[r].op = "createFromImage"

C12_Step(r) ==
    /\ MaxImageBytes = 16777216
    /\ \A mimeType \in supportedFormats :
          /\ validateImageForOCR(MaxImageBytes, mimeType).valid
          /\ validateImageForOCR(MaxImageBytes + 1, mimeType) =
                [valid |-> FALSE, error |-> SizeError]
    /\ (Validated(r) /\ req'[r].result.error = SizeError)
       => /\ req'[r].pc = "done"
          /\ req'[r].trace = <<"validateImageForOCR">>
          /\ TablesUnchanged
    /\ (Validated(r) /\ Count(req'[r].trace, "storagePut") > 0)
       => req'[r].result.error # SizeError

C12_SizeLimit == [][\A r \in Slots : C12_Step(r)]_vars

C12_Witness ==
    \E r, s \in Slots :
        /\ req[r].op = "createFromImage" /\ req[r].pc = "done"
        /\ req[r].result = Err(SizeError)
        /\ Returned(s, "createFromImage")

\* C13: validateImageForOCR passes a MIME type exactly when, in lower case, it is
\* one of image/jpeg, image/jpg, image/png, image/webp, image/gif; a createFromImage
\* request reaches storagePut only with such a type, and one with any other type
\* ends at once with the format error, without storagePut, OCR or createMeeting
\* call and without a write.
C13_Step(r) ==
    /\ \A mimeType \in MimeTypes :
          validateImageForOCR(1, mimeType).valid
          <=> mimeType \in {"image/jpeg", "image/jpg", "image/png", "image/webp", "image/gif",
                            "IMAGE/PNG"}
    /\ (Validated(r) /\ req'[r].result.error = FormatError)
       => /\ req'[r].pc = "done"
          /\ req'[r].trace = <<"validateImageForOCR">>
          /\ TablesUnchanged
    /\ (Validated(r) /\ Len(req'[r].trace) > 1)
       => /\ req'[r].trace[2] = "storagePut"
          /\ req'[r].result.error \notin {FormatError, SizeError}
    /\ (req'[r].op = "createFromImage" /\ req'[r].pc = "done"
        /\ req'[r].trace = <<"validateImageForOCR">>)
       => req'[r].result \in {Err(FormatError), Err(SizeError)}

C13_MimeAllowList == [][\A r \in Slots : C13_Step(r)]_vars

C13_Witness ==
    \E r, s \in Slots :
        /\ req[r].op = "createFromImage" /\ req[r].pc = "done"
        /\ req[r].result = Err(FormatError)
        /\ req[s].op = "createFromImage" /\ req[s].pc = "extractAndDetectLanguage"

\* C14: when extractAndDetectLanguage answers with empty extracted text (the parsed
\* text property empty or missing, or a raw text of white space only), the
\* createFromImage request ends with "No text could be extracted from the image";
\* no step of the request up to there writes, so the Meetings are as before the
\* request, and a request reaches its insert only with non-empty text.
C14_Step(r) ==
    /\ \A t \in OcrResponses :
          extractAndDetectLanguage(t).extractedText = ""
          => createFromImageAfterOcr(req[r], [ok |-> TRUE, text |-> t]) =
                Finish(req[r], Err(NoTextError))
    /\ (/\ req[r].op = "createFromImage" /\ req[r].pc = "extractAndDetectLanguage"
        /\ req'[r].pc # req[r].pc
        /\ ~Rejected(req'[r].trace, "extractAndDetectLanguage"))
       => \/ req'[r].pc = "createMeetingFromImage" /\ req'[r].content # ""
          \/ /\ req'[r].pc = "done" /\ req'[r].result = Err(NoTextError)
             /\ Count(req'[r].trace, "createMeeting") = 0
    /\ (/\ req'[r].op = "createFromImage" /\ req'[r].trace # req[r].trace
        /\ Count(req'[r].trace, "createMeeting") = 0)
       => TablesUnchanged

C14_EmptyOcrText == [][\A r \in Slots : C14_Step(r)]_vars

C14_Witness ==
    \E r \in Slots :
        /\ req[r].op = "createFromImage" /\ req[r].pc = "done"
        /\ req[r].result = Err(NoTextError)
        /\ meetings = {}

\* C15: while getDb() yields no handle (DATABASE_URL is not set), get, getTranslation
\* and list return absent, absent and the empty list without an error, and
\* createMeeting, createTranslation and deleteMeeting fail with "Database not
\* available", which the create, createFromImage and delete requests pass on to
\* their callers; none of these steps changes a table or a counter.
Unavailable == ~getDb(dbHandle, databaseUrl)

Arrives(r, op) == req[r].pc = "idle" /\ req'[r].op = op

C15_Step(r) ==
    Unavailable =>
    /\ Arrives(r, "get") => req'[r].result = Ok([meeting |-> <<>>])
    /\ Arrives(r, "getTranslation") => req'[r].result = Ok([translation |-> <<>>])
    /\ Arrives(r, "list") => req'[r].result = Ok([meetings |-> <<>>])
    /\ Arrives(r, "delete")
       => req'[r].result = Err(DbError) /\ Rejected(req'[r].trace, "deleteMeeting")
    /\ (req[r].pc \in {"createMeeting", "createMeetingFromImage"} /\ req'[r].pc # req[r].pc)
       => req'[r].result = Err(DbError) /\ Rejected(req'[r].trace, "createMeeting")
    /\ \A m \in MeetingIds, l \in Languages, text \in TranslatedTexts :
          LET res == createTranslation(FALSE, Db,
                        [meetingId |-> m, targetLanguage |-> l, translatedContent |-> text,
                         summary |-> "", actionItems |-> <<>>])
          IN ~res.ok /\ res.error = DbError /\ res.db = Db
    /\ req'[r] # req[r] => TablesUnchanged
    /\ ~dbHandle' /\ meetings = {} /\ translations = {}

C16_Step ==
    /\ Count(ref'.calls, "local") <= 1 /\ Count(ref'.calls, "cloud") <= 1
    /\ ref'.mode = "cloud" => Count(ref'.calls, "local") = 0
    /\ (ref.pc = "idle" /\ ref'.pc = "cloud") => ref.mode = "cloud"
    /\ (ref.pc = "local" /\ ref'.pc = "cloud")
       => ref.fallback /\ ref.calls = <<"local">> /\ ref'.calls = <<"local", "cloud">>
    /\ (ref.pc = "local" /\ ref' # ref /\ ~ref.fallback)
       => /\ ref'.pc = "done" /\ ref'.calls = <<"local">>
          /\ ref'.result.ok \/ ref'.result = Err(LocalError(ref.op))
    /\ (ref.pc = "local" /\ ref'.pc = "done" /\ ref.fallback) => ref'.result.ok
    /\ (ref.pc = "cloud" /\ ref' # ref)
       => /\ ref'.pc = "done" /\ ref'.calls = ref.calls
          /\ ref'.result.ok \/ ref'.result = Err(CloudError(ref.op))

C16_SingleFallback == [][C16_Step]_vars

C16_Witness ==
    /\ ref.op = "translate" /\ ref.mode = "local" /\ ref.fallback
    /\ ref.pc = "done" /\ ref.calls = <<"local", "cloud">>
    /\ ref.result = Err(CloudError("translate"))

\* C17: a create request whose detectMeetingLanguage call was rejected has, when it
\* ends, inserted a Meeting and returned its id with detectedLanguage null.
C17_DetectFailurePersists ==
    \A r \in Slots :
        (/\ req[r].op = "create" /\ req[r].pc = "done"
         /\ Len(req[r].trace) >= 2
         /\ req[r].trace[1] = "detectMeetingLanguage" /\ req[r].trace[2] = "rejected")
        => /\ req[r].result.ok
           /\ req[r].result.value[1].detectedLanguage = NULL
           /\ Count(req[r].trace, "createMeeting") = 1

\* C18: a list request of user U returns each Meeting whose userId is U exactly once
\* and no other, and a Meeting created later comes before one created earlier (the
\* ids follow the order of creation).
C18_ListStep(r) ==
    Arrives(r, "list") =>
    LET rows == req'[r].result.value[1].meetings IN
    /\ req'[r].result.ok
    /\ {rows[i] : i \in 1..Len(rows)} = {m \in meetings : m.userId = req'[r].user}
    /\ Len(rows) = Cardinality({m \in meetings : m.userId = req'[r].user})
    /\ \A i, j \in 1..Len(rows) : i < j => rows[i].id > rows[j].id

C18_ListNewestFirst == [][\A r \in Slots : C18_ListStep(r)]_vars

\* C19: a getTranslation(M, L) request that arrives after a translate(M, L) has
\* returned successfully, Meeting M still existing, returns a Translation with the
\* id, targetLanguage, translatedContent, summary and actionItems that the translate
\* returned.
C19_ReadsBackTranslation ==
    \A a, b \in Slots :
        (/\ Returned(a, "translate")
         /\ req[b].op = "getTranslation" /\ req[b].pc = "done"
         /\ a \in req[b].after
         /\ req[a].meetingId = req[b].meetingId
         /\ req[a].targetLanguage = req[b].targetLanguage
         /\ MeetingExists(meetings, req[a].meetingId))
        => /\ req[b].result.ok
           /\ req[b].result.value[1].translation # <<>>
           /\ LET got == req[b].result.value[1].translation[1]
                  made == req[a].result.value[1]
              IN /\ got.id = made.id
                 /\ got.targetLanguage = made.targetLanguage
                 /\ got.translatedContent = made.translatedContent
                 /\ got.summary = made.summary
                 /\ got.actionItems = made.actionItems

\* C20: the step in which delete(id) returns { success: true } leaves no Meeting with
\* that id: getMeetingById(id) is absent and no user's list holds it.  The id is never
\* given to a later Meeting, and a get of an id without a Meeting returns absent while
\* a list returns rows of the table only, so this stays so in every later state.
C20_Step(r) ==
    /\ (Arrives(r, "delete") /\ req'[r].result.ok)
       => /\ req'[r].result = Ok([success |-> TRUE])
          /\ ~MeetingExists(meetings', req'[r].meetingId)
          /\ getMeetingById(dbHandle', Db', req'[r].meetingId) = {<<>>}
          /\ \A u \in Users \cup Callers : \A rows \in getUserMeetings(dbHandle', Db', u) :
                \A i \in 1..Len(rows) : rows[i].id # req'[r].meetingId
    /\ \A id \in 1..(meetingsAutoInc - 1) :
          ~MeetingExists(meetings, id) => ~MeetingExists(meetings', id)
    /\ (Arrives(r, "get") /\ ~MeetingExists(meetings, req'[r].meetingId))
       => req'[r].result = Ok([meeting |-> <<>>])
    /\ Arrives(r, "list")
       => \A i \in 1..Len(req'[r].result.value[1].meetings) :
             req'[r].result.value[1].meetings[i] \in meetings

C20_DeletedMeetingGone == [][\A r \in Slots : C20_Step(r)]_vars

C20_Witness ==
    \E r, s \in Slots :
        /\ Returned(r, "delete") /\ req[r].meetingId < meetingsAutoInc
        /\ req[s].op = "get" /\ req[s].pc = "done" /\ r \in req[s].after
        /\ req[s].meetingId = req[r].meetingId
        /\ req[s].result = Ok([meeting |-> <<>>])

\* C21: in every reachable state every Translation row has a non-empty
\* targetLanguage and a non-empty translatedContent, and every Meeting row has a
\* non-empty title and a non-empty originalContent.
C21_NonEmptyFields ==
    /\ \A t \in translations : t.targetLanguage # "" /\ t.translatedContent # ""
    /\ \A m \in meetings : m.title # "" /\ m.originalContent # ""

\* C22: of two translate requests for the same pair that both missed the cache
\* (each looked up before the other inserted), neither returns a value before its
\* own insert, and the insert of each, when it succeeds, closes the full run of
\* calls (lookup, load, remote translate, remote summarize, insert) and adds one
\* row for the pair, whether or not the other request's row is already there.
TranslateCalls ==
    <<"getTranslation", "getMeetingById", "translateMeetingNotes",
      "summarizeMeetingNotes", "createTranslation">>

MissedCache(r) ==
    /\ req[r].op = "translate"
    /\ req[r].pc \in {"getMeetingById", "translateMeetingNotes",
                      "summarizeMeetingNotes", "createTranslation"}

\* r has missed the cache and not inserted yet; q missed the cache as well.
Racing(r, q) ==
    /\ r # q /\ MissedCache(r)
    /\ req[q].op = "translate" /\ Len(req[q].trace) >= 2
    /\ req[r].meetingId = req[q].meetingId /\ req[r].targetLanguage = req[q].targetLanguage

C22_Step(r, q) ==
    (Racing(r, q) /\ req'[r].pc = "done" /\ req'[r].result.ok)
    => /\ req[r].pc = "createTranslation"
       /\ req'[r].trace = TranslateCalls
       /\ Cardinality(RowsFor(translations', req[r].meetingId, req[r].targetLanguage))
            = Cardinality(RowsFor(translations, req[r].meetingId, req[r].targetLanguage)) + 1
       /\ \E t \in translations' \ translations : t.id = req'[r].result.value[1].id

C22_RacingTranslatesBothInsert == [][\A r, q \in Slots : C22_Step(r, q)]_vars

C22_Witness ==
    \E r, q \in Slots :
        /\ r # q
        /\ Returned(r, "translate") /\ Returned(q, "translate")
        /\ req[r].trace = TranslateCalls /\ req[q].trace = TranslateCalls
        /\ req[r].meetingId = req[q].meetingId /\ req[r].targetLanguage = req[q].targetLanguage
        /\ Cardinality(RowsFor(translations, req[r].meetingId, req[r].targetLanguage)) = 2

\* C23: the calls of a translate request are, in this order, cache lookup, Meeting
\* load, remote translate, remote summarize, insert: its log is always a prefix of
\* that sequence, possibly closed by the rejection of its last call, after which
\* the request is over; each step of the request appends exactly the next call, and
\* the insert is made only by a request that holds the summary summarize returned.
IsPrefix(s, t) == Len(s) <= Len(t) /\ \A i \in 1..Len(s) : s[i] = t[i]

Front(s) == SubSeq(s, 1, Len(s) - 1)

InOrder(trace) ==
    \/ IsPrefix(trace, TranslateCalls)
    \/ /\ Len(trace) >= 2 /\ trace[Len(trace)] = "rejected"
       /\ IsPrefix(Front(trace), TranslateCalls)

C23_Step(r) ==
    /\ req'[r].op = "translate" =>
         /\ InOrder(req'[r].trace)
         /\ (Len(req'[r].trace) > 0 /\ req'[r].trace[Len(req'[r].trace)] = "rejected")
               => (req'[r].pc = "done" /\ ~req'[r].result.ok)
    /\ (req[r].op = "translate" /\ req'[r].op = "translate" /\ req'[r].trace # req[r].trace) =>
         /\ req[r].pc = TranslateCalls[Len(req[r].trace) + 1]
         /\ IsPrefix(req[r].trace, TranslateCalls)
         /\ Front(req'[r].trace) = req[r].trace
              \/ (Rejected(req'[r].trace, req[r].pc) /\ Front(Front(req'[r].trace)) = req[r].trace)
    /\ (req[r].op = "translate" /\ req[r].pc = "createTranslation") =>
         /\ req[r].trace = Front(TranslateCalls)
         /\ req[r].summary # <<>>
         /\ req[r].translatedContent \in TranslatedTexts

C23_TranslateCallOrder == [][\A r \in Slots : C23_Step(r)]_vars

C23_Witness ==
    \E r \in Slots :
        /\ Returned(r, "translate") /\ req[r].trace = TranslateCalls
        /\ \E t \in translations : t.id = req[r].result.value[1].id

\* C24: in every reachable state the meetingId of every Translation row is the id of
\* a Meeting row; the insert of a translate request whose Meeting was deleted after
\* the request loaded it is refused, and the request ends with an error and no row.
C24_Referenced == \A t \in translations : MeetingExists(meetings, t.meetingId)

C24_Step(r) ==
    (/\ req[r].op = "translate" /\ req[r].pc = "createTranslation"
     /\ req'[r].pc = "done"
     /\ ~MeetingExists(meetings, req[r].meetingId))
    => /\ ~req'[r].result.ok
       /\ Rejected(req'[r].trace, "createTranslation")
       /\ translations' = translations

C24_NoDanglingTranslation ==
    []C24_Referenced /\ [][\A r \in Slots : C24_Step(r)]_vars

C24_Witness ==
    \E r \in Slots :
        /\ req[r].op = "translate" /\ req[r].pc = "done"
        /\ Rejected(req[r].trace, "createTranslation")
        /\ req[r].result = Err(FkError)
        /\ ~MeetingExists(meetings, req[r].meetingId)
        /\ C24_Referenced

\* C25: the row a translate request inserts carries as translatedContent the very
\* text the request handed to summarizeMeetingNotes, which is the provider's
\* translation and not the Meeting's originalContent; and in every reachable state
\* the summary column of every Translation row equals the summary member of the
\* structured summary serialized in its actionItems column.
C25_Step(r) ==
    /\ (/\ req[r].op = "translate" /\ req[r].pc = "translateMeetingNotes"
        /\ req'[r].pc = "summarizeMeetingNotes")
       => /\ req'[r].summarizeInput = req'[r].translatedContent
          /\ req'[r].summarizeInput \in TranslatedTexts
          /\ req'[r].summarizeInput # req[r].meeting[1].originalContent
    /\ (/\ req[r].op = "translate" /\ req[r].pc = "createTranslation"
        /\ req'[r].result.ok)
       => \E row \in translations' \ translations :
             /\ row.id = req'[r].result.value[1].id
             /\ row.translatedContent = req[r].summarizeInput
             /\ row.summary = req[r].summary[1].summary

C25_SummaryColumn ==
    \A t \in translations : JSONparse(t.actionItems[1]).summary = << <<t.summary>> >>

C25_SummaryOfTranslatedContent ==
    []C25_SummaryColumn /\ [][\A r \in Slots : C25_Step(r)]_vars

C25_Witness ==
    \E r \in Slots, t \in translations :
        /\ Returned(r, "translate") /\ req[r].trace = TranslateCalls
        /\ t.id = req[r].result.value[1].id
        /\ t.translatedContent \in TranslatedTexts
        /\ t.summary = "Overview"
        /\ JSONparse(t.actionItems[1]).summary = << <<"Overview">> >>

\* C26: a get request for the id of an existing Meeting returns that Meeting row,
\* whichever authenticated user makes it, the owner or not, and writes nothing.
C26_Step(r) ==
    (Arrives(r, "get") /\ ~Unavailable /\ MeetingExists(meetings, req'[r].meetingId))
    => /\ req'[r].pc = "done"
       /\ \E m \in meetings :
             /\ m.id = req'[r].meetingId
             /\ req'[r].result = Ok([meeting |-> <<m>>])
       /\ TablesUnchanged

C26_GetByAnyUser == [][\A r \in Slots : C26_Step(r)]_vars

C26_Witness ==
    \E r \in Slots, m \in meetings :
        /\ Returned(r, "get")
        /\ req[r].result = Ok([meeting |-> <<m>>])
        /\ req[r].user \in Callers /\ req[r].user # m.userId

\* C27: batchTranslate returns the translations of its items in the order of the
\* input list; at no time are more than `concurrency` of its translateMeetingNotes
\* calls in flight (none at all for a concurrency below 1); and the calls of a
\* batch are made only when every call of the batch before has resolved.
BatchInFlight == Cardinality({i \in DOMAIN batch.calls : batch.calls[i] = "pending"})

TranslatedAll(items) == [i \in 1..Len(items) |-> Translated(items[i])]

C27_InOrder ==
    /\ batch.pc # "idle" =>
          /\ Len(batch.results) + Len(batch.current) + Len(batch.queue) = Len(batch.items)
          /\ batch.results = TranslatedAll(SubSeq(batch.items, 1, Len(batch.results)))
    /\ batch.pc = "returned" => batch.results = TranslatedAll(batch.items)

C27_Bounded ==
    BatchInFlight <= (IF batch.concurrency >= 1 THEN batch.concurrency ELSE 0)

C27_Step ==
    (\E i \in DOMAIN batch'.calls :
        /\ batch'.calls[i] = "pending"
        /\ ~(i \in DOMAIN batch.calls /\ batch.calls[i] = "pending"))
    => /\ batch.pc = "while"
       /\ \A j \in DOMAIN batch.calls : batch.calls[j] = "resolved"
       /\ BatchInFlight = 0

C27_BatchesInOrder == []C27_InOrder /\ []C27_Bounded /\ [][C27_Step]_vars

C27_Witness ==
    /\ batch.pc = "returned"
    /\ Len(batch.items) = MaxBatchItems /\ batch.concurrency = 2
    /\ batch.items[1] # batch.items[MaxBatchItems]
    /\ batch.results = TranslatedAll(batch.items)

\* C28: once batchTranslate has started, for every list and every integer
\* concurrency, it returns or throws, every call it makes settling.
C28_Terminates ==
    [](batch.pc = "while" => <>(batch.pc \in {"returned", "thrown"}))

\* C29: while DATABASE_URL is not set (no persistence), a translate request ends at
\* its Meeting load with "Meeting not found", its only calls the two lookups, and
\* an export request ends at its Meeting load with the same error; no request ever
\* calls translateMeetingNotes, summarizeMeetingNotes or formatSummaryForExport.
RemoteOrRender == {"translateMeetingNotes", "summarizeMeetingNotes", "formatSummaryForExport"}

C29_NoRemoteCall ==
    databaseUrl = "unset" =>
        \A r \in Slots :
            /\ \A i \in 1..Len(req[r].trace) : req[r].trace[i] \notin RemoteOrRender
            /\ (req[r].op \in {"translate", "export"} /\ req[r].pc = "done")
                  => req[r].result = Err("Meeting not found")

C29_Step(r) ==
    databaseUrl = "unset" =>
    /\ Arrives(r, "translate")
       => req'[r].pc = "getMeetingById" /\ req'[r].trace = <<"getTranslation">>
    /\ (req[r].op = "translate" /\ req[r].pc = "getMeetingById" /\ req'[r].pc # req[r].pc)
       => /\ req'[r].pc = "done"
          /\ req'[r].result = Err("Meeting not found")
          /\ req'[r].trace = <<"getTranslation", "getMeetingById">>
          /\ TablesUnchanged
    /\ Arrives(r, "export")
       => /\ req'[r].pc = "done"
          /\ req'[r].result = Err("Meeting not found")
          /\ req'[r].trace = <<"getMeetingById">>
          /\ TablesUnchanged

C29_FailsBeforeRemote == []C29_NoRemoteCall /\ [][\A r \in Slots : C29_Step(r)]_vars

C29_Witness ==
    \E r, s \in Slots :
        /\ databaseUrl = "unset"
        /\ req[r].op = "translate" /\ req[r].pc = "done"
        /\ req[r].result = Err("Meeting not found")
        /\ req[r].trace = <<"getTranslation", "getMeetingById">>
        /\ req[s].op = "export" /\ req[s].pc = "done"
        /\ req[s].result = Err("Meeting not found")

\* C30: the row a translate request inserts holds, in actionItems, a text that
\* JSON.parse reads back as the summary the request computed: the same summary,
\* actionItems, keyPoints, participants and decisions.  An export whose lookup
\* finds a row for its pair therefore returns a document, in which each of the
\* sections Participants, Action Items, Key Points and Decisions Made appears
\* exactly when the row's list of that name is not empty.
AsParsed(summary) ==
    [summary |-> << <<summary.summary>> >>,
     actionItems |-> <<summary.actionItems>>,
     keyPoints |-> <<summary.keyPoints>>,
     participants |-> summary.participants,
     decisions |-> summary.decisions]

HasSection(doc, heading) == \E i \in 1..Len(doc) : doc[i] = <<heading>>

NonEmptyList(p) == p # <<>> /\ Len(p[1]) > 0

SectionsMatch(doc, summary) ==
    /\ HasSection(doc, "## Participants") <=> NonEmptyList(summary.participants)
    /\ HasSection(doc, "## Action Items") <=> NonEmptyList(summary.actionItems)
    /\ HasSection(doc, "## Key Points") <=> NonEmptyList(summary.keyPoints)
    /\ HasSection(doc, "## Decisions Made") <=> NonEmptyList(summary.decisions)

C30_Step(r) ==
    /\ (/\ req[r].op = "translate" /\ req[r].pc = "createTranslation"
        /\ req'[r].result.ok)
       => \E row \in translations' \ translations :
             /\ row.id = req'[r].result.value[1].id
             /\ JSONparse(row.actionItems[1]) = AsParsed(req[r].summary[1])
    /\ (/\ req[r].op = "export" /\ req[r].pc = "getTranslation" /\ req'[r].pc = "done"
        /\ RowsFor(translations, req[r].meetingId, req[r].targetLanguage) # {})
       => /\ req'[r].result.ok
          /\ \E t \in RowsFor(translations, req[r].meetingId, req[r].targetLanguage) :
                /\ HasHeadings(req'[r].result.value[1].content)
                /\ SectionsMatch(req'[r].result.value[1].content, JSONparse(t.actionItems[1]))

C30_ExportReadsSummaryBack == [][\A r \in Slots : C30_Step(r)]_vars

C30_Witness ==
    \E r \in Slots :
        /\ Returned(r, "export")
        /\ HasSection(req[r].result.value[1].content, "## Key Points")
        /\ HasSection(req[r].result.value[1].content, "## Decisions Made")
        /\ ~HasSection(req[r].result.value[1].content, "## Participants")
        /\ ~HasSection(req[r].result.value[1].content, "## Action Items")

====
